---- MODULE Spec2Model ----
(***************************************************************************)
(* BiomarkerFinder (app.py): the dictionary build (__init__ and            *)
(* _build_automaton) and the scan (find_matches).                          *)
(*                                                                         *)
(* A Python str is a sequence of one-character strings.  Offsets keep      *)
(* Python's 0-based, inclusive-end convention; at(s, i) is s[i].           *)
(* "U0130" is LATIN CAPITAL LETTER I WITH DOT ABOVE, the one code point    *)
(* whose str.lower() is two code points: "i" followed by "U0307"           *)
(* (COMBINING DOT ABOVE).                                                  *)
(***************************************************************************)
EXTENDS Integers, Sequences, FiniteSets, TLC

VARIABLES
    biomarker_dataframe, \* the biomarker_dataframe argument of __init__
    biomarker_df,        \* self.biomarker_df: the rows, in dataset order
    min_len,             \* the min_len argument of __init__
    stop_words,          \* self.stop_words
    biomarker_db,        \* self.biomarker_db: ID -> row
    automaton,           \* self.automaton: the words added, in add_word order
    pc,                  \* "new" | "ready" | "returned"
    text,                \* the argument of the find_matches call that returned
    whole_word_matches,  \* find_matches' local, after the sort of line 113
    longest_matches,     \* find_matches' local
    results,             \* what the call returned
    raised,              \* the exception the call ended with, or "none"
    calls                \* find_matches calls made with the current text

vars == <<biomarker_dataframe, biomarker_df, min_len, stop_words, biomarker_db,
          automaton, pc, text, whole_word_matches, longest_matches, results,
          raised, calls>>

\* ------------------------------------------------------------ bounds

MaxRows == 2

MaxTextLen == 4

MaxCalls == 2

\* ------------------------------------------------------------ values

NaN == <<"NaN">>

None == <<"None">>

Protein == <<"Protein">>

NoID == "NaN"

StopWords ==
  { <<"a">>, <<"a","n">>, <<"a","n","d">>, <<"a","r","e">>, <<"a","s">>,
    <<"a","t">>, <<"b","e">>, <<"b","y">>, <<"f","o","r">>,
    <<"f","r","o","m">>, <<"h","a","s">>, <<"h","e">>, <<"i","n">>,
    <<"i","s">>, <<"i","t">>, <<"i","t","s">>, <<"o","f">>, <<"o","n">>,
    <<"t","h","a","t">>, <<"t","h","e">>, <<"t","o">>, <<"w","a","s">>,
    <<"w","e","r","e">>, <<"w","i","l","l">>, <<"w","i","t","h">>,
    <<"h","i","s">> }

\* ------------------------------------------------------------ str

\* str.lower() of one code point
lower_char(c) ==
    CASE c = "A" -> <<"a">>
      [] c = "S" -> <<"s">>
      [] c = "U0130" -> <<"i", "U0307">>
      [] OTHER -> <<c>>

RECURSIVE lower(_)
lower(s) == IF s = <<>> THEN <<>> ELSE lower_char(Head(s)) \o lower(Tail(s))

\* str.isalnum() of one code point
isalnum(c) == c \in {"a", "s", "A", "S", "i", "U0130"}

isspace(c) == c = " "

RECURSIVE lstrip(_)
lstrip(s) == IF s # <<>> /\ isspace(Head(s)) THEN lstrip(Tail(s)) ELSE s

RECURSIVE rstrip(_)
rstrip(s) ==
    IF s # <<>> /\ isspace(s[Len(s)]) THEN rstrip(SubSeq(s, 1, Len(s) - 1)) ELSE s

strip(s) == rstrip(lstrip(s))

\* str.split(sep): the pieces between the separators, empty pieces included
RECURSIVE split_from(_, _, _)
split_from(s, sep, piece) ==
    IF s = <<>> THEN <<piece>>
    ELSE IF Head(s) = sep THEN <<piece>> \o split_from(Tail(s), sep, <<>>)
    ELSE split_from(Tail(s), sep, Append(piece, Head(s)))

split(s, sep) == split_from(s, sep, <<>>)

\* s[i], defined for 0 <= i < len(s)
at(s, i) == s[i + 1]

\* s[a:b] for 0 <= a: the slice is clipped to the string
slice(s, a, b) == SubSeq(s, a + 1, IF b < Len(s) THEN b ELSE Len(s))

\* ------------------------------------------------------------ __init__

\* pd.notna of a text cell
notna(x) == x # NaN

\* pd.notna of an ID cell
notna_id(id) == id # NoID

RECURSIVE dropna(_)
dropna(df) ==
    IF df = <<>> THEN <<>>
    ELSE IF notna_id(Head(df).ID) /\ notna(Head(df).BiomarkerName)
         THEN <<Head(df)>> \o dropna(Tail(df))
         ELSE dropna(Tail(df))

\* drop_duplicates(subset=['ID']) with keep='last'
drop_duplicates_keep_last(df) ==
    LET keep == { i \in DOMAIN df : \A j \in DOMAIN df : j > i => df[j].ID # df[i].ID }
        RECURSIVE pick(_)
        pick(i) == IF i > Len(df) THEN <<>>
                   ELSE (IF i \in keep THEN <<df[i]>> ELSE <<>>) \o pick(i + 1)
    IN  pick(1)

\* drop_duplicates(subset=['ID']): the first row of every ID, in order
drop_duplicates(df) ==
    LET keep == { i \in DOMAIN df : \A j \in DOMAIN df : j < i => df[j].ID # df[i].ID }
        RECURSIVE pick(_)
        pick(i) == IF i > Len(df) THEN <<>>
                   ELSE (IF i \in keep THEN <<df[i]>> ELSE <<>>) \o pick(i + 1)
    IN  pick(1)

\* {row['ID']: row.to_dict() for _, row in rows.iterrows()}
to_db(rows) ==
    [ id \in { rows[i].ID : i \in DOMAIN rows } |->
        rows[CHOOSE i \in DOMAIN rows :
                 /\ rows[i].ID = id
                 /\ \A j \in DOMAIN rows : rows[j].ID = id => j <= i] ]

\* ------------------------------------------------------------ _build_automaton

_is_valid_term(term, stops) == Len(term) >= 2 /\ lower(term) \notin stops

terms_to_process(row) ==
    <<row.BiomarkerName>> \o
    (IF notna(row.ExhaustiveSynonyms) THEN split(row.ExhaustiveSynonyms, ",") ELSE <<>>)

in_map(map, term_lower) == \E i \in DOMAIN map : map[i].key = term_lower

\* final_terms_map[term_lower] = ... unconditionally: the last writer wins
put_term_overwrite(map, term_lower, concept_id, term_stripped) ==
    LET entry == [key |-> term_lower, concept_id |-> concept_id,
                  original_cased_term |-> term_stripped]
    IN  IF in_map(map, term_lower)
        THEN [i \in DOMAIN map |-> IF map[i].key = term_lower THEN entry ELSE map[i]]
        ELSE Append(map, entry)

\* if term_lower not in final_terms_map: final_terms_map[term_lower] = (...)
put_term(map, term_lower, concept_id, term_stripped) ==
    IF in_map(map, term_lower) THEN map
    ELSE Append(map, [key |-> term_lower, concept_id |-> concept_id,
                      original_cased_term |-> term_stripped])

RECURSIVE process_terms(_, _, _, _)
process_terms(map, concept_id, terms, stops) ==
    IF terms = <<>> THEN map
    ELSE LET term_stripped == strip(Head(terms))
             next == IF _is_valid_term(term_stripped, stops)
                     THEN put_term(map, lower(term_stripped), concept_id, term_stripped)
                     ELSE map
         IN  process_terms(next, concept_id, Tail(terms), stops)

RECURSIVE process_rows(_, _, _)
process_rows(map, df, stops) ==
    IF df = <<>> THEN map
    ELSE process_rows(
             process_terms(map, Head(df).ID, terms_to_process(Head(df)), stops),
             Tail(df), stops)

\* The min_len argument is accepted and never read: _is_valid_term compares
\* against the literal 2.
_build_automaton(df, minlen, stops) == process_rows(<<>>, df, stops)

\* ------------------------------------------------------------ find_matches

\* `not self.automaton`: no automaton is set (the empty sequence before the
\* build) or the automaton holds no word (its len() is 0)
finder_is_empty_df_only(A, df) == Len(df) = 0

\* if not self.automaton or self.biomarker_df.empty
finder_is_empty(A, df) == Len(A) = 0 \/ Len(df) = 0

\* The words of A that end at offset e of s, longest first (the automaton
\* reports a node's own word, then the words on its chain of suffix links).
RECURSIVE hits_at(_, _, _, _)
hits_at(A, s, e, L) ==
    IF L = 0 THEN <<>>
    ELSE LET word == SubSeq(s, e - L + 2, e + 1)
             found == { i \in DOMAIN A : A[i].key = word }
         IN  (IF found # {}
              THEN <<[end_index |-> e, value |-> A[CHOOSE i \in found : TRUE]]>>
              ELSE <<>>)
             \o hits_at(A, s, e, L - 1)

RECURSIVE iter_from(_, _, _)
iter_from(A, s, e) ==
    IF e >= Len(s) THEN <<>> ELSE hits_at(A, s, e, e + 1) \o iter_from(A, s, e + 1)

\* self.automaton.iter(s): every occurrence of every word, by end offset
automaton_iter(A, s) == iter_from(A, s, 0)

\* the mention is the surface form stored at build time
actual_mention_stored(txt, start_index, end_index, original_cased_term) ==
    original_cased_term

\* text[start_index : end_index + 1]
actual_mention(txt, start_index, end_index, original_cased_term) ==
    slice(txt, start_index, end_index + 1)

match_of(txt, hit) ==
    LET start_index == hit.end_index - Len(hit.value.original_cased_term) + 1
    IN  [start |-> start_index, end |-> hit.end_index,
         concept_id |-> hit.value.concept_id,
         term |-> actual_mention(txt, start_index, hit.end_index,
                                 hit.value.original_cased_term)]

all_matches(A, txt) ==
    LET hits == automaton_iter(A, lower(txt))
    IN  [k \in DOMAIN hits |-> match_of(txt, hits[k])]

\* text[i] raises IndexError for i >= len(text)
index_error(txt, m) ==
    \/ m.start # 0 /\ m.start - 1 >= Len(txt)
    \/ m.end + 1 # Len(txt) /\ m.end + 1 >= Len(txt)

is_start_bound(txt, start) == start = 0 \/ ~isalnum(at(txt, start - 1))

\* the character tested is the match's last one, not the one after it
is_end_bound_last_char(txt, end) == end + 1 = Len(txt) \/ ~isalnum(at(txt, end))

is_end_bound(txt, end) == end + 1 = Len(txt) \/ ~isalnum(at(txt, end + 1))

RECURSIVE whole_word(_, _)
whole_word(txt, matches) ==
    IF matches = <<>> THEN <<>>
    ELSE (IF is_start_bound(txt, Head(matches).start) /\ is_end_bound(txt, Head(matches).end)
          THEN <<Head(matches)>> ELSE <<>>)
         \o whole_word(txt, Tail(matches))

\* key (x[0], +(x[1] - x[0])): the shortest match of a start comes first
sort_before_shortest(x, y) ==
    \/ x.start < y.start
    \/ x.start = y.start /\ (x.end - x.start) < (y.end - y.start)

\* key=lambda x: (x[0], -(x[1] - x[0])) orders x strictly before y
sort_before(x, y) ==
    \/ x.start < y.start
    \/ x.start = y.start /\ -(x.end - x.start) < -(y.end - y.start)

RECURSIVE sorted_insert(_, _)
sorted_insert(s, x) ==
    IF s = <<>> THEN <<x>>
    ELSE IF sort_before(x, Head(s)) THEN <<x>> \o s
    ELSE <<Head(s)>> \o sorted_insert(Tail(s), x)

\* list.sort(key=...): stable
RECURSIVE sort(_, _)
sort(done, rest) ==
    IF rest = <<>> THEN done ELSE sort(sorted_insert(done, Head(rest)), Tail(rest))

\* start >= last_end
accepts_touching(start, last_end) == start >= last_end

\* if start > last_end
accepts(start, last_end) == start > last_end

RECURSIVE select_longest(_, _)
select_longest(matches, last_end) ==
    IF matches = <<>> THEN <<>>
    ELSE IF accepts(Head(matches).start, last_end)
         THEN <<Head(matches)>> \o select_longest(Tail(matches), Head(matches).end)
         ELSE select_longest(Tail(matches), last_end)

\* self.biomarker_db.get(concept_id, {}).get(field)
db_get(db, concept_id, field) ==
    IF concept_id \in DOMAIN db THEN db[concept_id][field] ELSE None

build_results(db, longest) ==
    [k \in DOMAIN longest |->
        [MentionedTerm |-> longest[k].term,
         LinkedBiomarker |-> db_get(db, longest[k].concept_id, "BiomarkerName"),
         ID |-> longest[k].concept_id,
         Type |-> db_get(db, longest[k].concept_id, "Type")]]

Returned(whole, longest, res) ==
    [whole_word_matches |-> whole, longest_matches |-> longest, results |-> res,
     raised |-> "none"]

Raised(exception) ==
    [whole_word_matches |-> <<>>, longest_matches |-> <<>>, results |-> <<>>,
     raised |-> exception]

\* The body of find_matches: its locals and what it returns or raises.
\* Automaton.iter raises AttributeError on an automaton without words.
scan(A, db, df, txt) ==
    IF finder_is_empty(A, df) THEN Returned(<<>>, <<>>, <<>>)
    ELSE IF Len(A) = 0 THEN Raised("AttributeError")
    ELSE LET all == all_matches(A, txt)
         IN  IF \E k \in DOMAIN all : index_error(txt, all[k]) THEN Raised("IndexError")
             ELSE LET whole == sort(<<>>, whole_word(txt, all))
                      longest == select_longest(whole, -1)
                  IN  Returned(whole, longest, build_results(db, longest))

\* biomarker_db.pop(concept_id, {}) in place of .get: the scan consumes the
\* concepts it reports
find_matches_pop(t) ==
    LET r == scan(automaton, biomarker_db, biomarker_df, t)
        reported == { r.longest_matches[k].concept_id : k \in DOMAIN r.longest_matches }
    IN  /\ text' = t
        /\ whole_word_matches' = r.whole_word_matches
        /\ longest_matches' = r.longest_matches
        /\ results' = r.results
        /\ raised' = r.raised
        /\ biomarker_db' = [id \in DOMAIN biomarker_db \ reported |-> biomarker_db[id]]
        /\ UNCHANGED <<biomarker_dataframe, biomarker_df, min_len, stop_words, automaton>>

\* BiomarkerFinder.find_matches(t)
find_matches(t) ==
    LET r == scan(automaton, biomarker_db, biomarker_df, t)
    IN  /\ text' = t
        /\ whole_word_matches' = r.whole_word_matches
        /\ longest_matches' = r.longest_matches
        /\ results' = r.results
        /\ raised' = r.raised
        /\ UNCHANGED <<biomarker_dataframe, biomarker_df, min_len, stop_words,
                       biomarker_db, automaton>>

\* ------------------------------------------------------------ inputs

Row(id, name, synonyms) ==
    [ID |-> id, BiomarkerName |-> name, ExhaustiveSynonyms |-> synonyms,
     Type |-> Protein]

RECURSIVE SeqsUpTo(_, _)
SeqsUpTo(S, n) ==
    IF n = 0 THEN {<<>>}
    ELSE LET shorter == SeqsUpTo(S, n - 1)
         IN  shorter \cup { Append(s, x) : s \in { t \in shorter : Len(t) = n - 1 }, x \in S }

\* Rows exercising the build: missing fields, duplicate ids, stop words,
\* short and empty candidates, padding, and case variants of one term.
BuildNames == { NaN, <<"A","a">>, <<" ","A","S">> }

BuildSynonyms ==
    { NaN,
      <<"A","A",","," ","a","s">>,
      <<"a",",",",","s","-","a"," ",",","a","a">> }

BuildRows ==
    { Row(id, n, s) : id \in {"B1", "B2", NoID}, n \in BuildNames, s \in BuildSynonyms }

BuildTexts ==
    { <<>>, <<"a","S">>, <<"A","A">>, <<"S","-","A">>, <<"a">> }

\* Rows exercising the scan: nested, overlapping and non-alphanumeric-initial
\* terms, and a term whose lowercase form is longer than its surface form.
ScanRows ==
    { Row("B1", <<"A","-","s","a">>, <<"a","-">>),
      Row("B2", <<"S","A">>, <<"-","a",",","a","-","a">>),
      Row("B1", <<"a","a">>, <<"U0130","a",",","A","a","-","S">>) }

TextAlphabet == {"a", "S", "-", "U0130"}

ScanTexts == SeqsUpTo(TextAlphabet, MaxTextLen)

\* The texts of the repeated calls: no character whose lowercase is longer.
RepeatTexts == SeqsUpTo(TextAlphabet \ {"U0130"}, MaxTextLen)

\* ------------------------------------------------------------ actions

InitOver(rows, minlens) ==
    /\ biomarker_dataframe \in SeqsUpTo(rows, MaxRows)
    /\ biomarker_df = <<>>
    /\ min_len \in minlens
    /\ stop_words = {}
    /\ biomarker_db = <<>>
    /\ automaton = <<>>
    /\ pc = "new"
    /\ text = <<>>
    /\ whole_word_matches = <<>>
    /\ longest_matches = <<>>
    /\ results = <<>>
    /\ raised = "none"
    /\ calls = 0

\* BiomarkerFinder.__init__
Construct ==
    /\ pc = "new"
    /\ stop_words' = StopWords
    /\ biomarker_df' = dropna(biomarker_dataframe)
    /\ biomarker_db' = to_db(drop_duplicates(biomarker_df'))
    /\ automaton' = _build_automaton(biomarker_df', min_len, stop_words')
    /\ pc' = "ready"
    /\ UNCHANGED <<biomarker_dataframe, min_len, text, whole_word_matches,
                   longest_matches, results, raised, calls>>

\* The caller passes a text to the built finder.
Extract(t) ==
    /\ pc = "ready"
    /\ find_matches(t)
    /\ pc' = "returned"
    /\ calls' = 1

\* The caller passes the same text again.
ExtractAgain ==
    /\ pc = "returned"
    /\ calls < MaxCalls
    /\ find_matches(text)
    /\ pc' = "returned"
    /\ calls' = calls + 1

\* The caller drops the returned list; the finder is kept.
Discard ==
    /\ pc = "returned"
    /\ pc' = "ready"
    /\ text' = <<>>
    /\ whole_word_matches' = <<>>
    /\ longest_matches' = <<>>
    /\ results' = <<>>
    /\ raised' = "none"
    /\ calls' = 0
    /\ UNCHANGED <<biomarker_dataframe, biomarker_df, min_len, stop_words,
                       biomarker_db, automaton>>

NextBuild ==
    \/ Construct
    \/ \E t \in BuildTexts : Extract(t)
    \/ Discard

NextScan ==
    \/ Construct
    \/ \E t \in ScanTexts : Extract(t)
    \/ Discard

NextRepeat ==
    \/ Construct
    \/ \E t \in RepeatTexts : Extract(t)
    \/ ExtractAgain
    \/ Discard

\* Build-centred: every dataset of up to MaxRows rows over BuildRows, either
\* min_len, and the texts of BuildTexts.
SpecBuild == InitOver(BuildRows, {2, 3}) /\ [][NextBuild]_vars

\* Scan-centred: the datasets over ScanRows, the default min_len, and every
\* text of up to MaxTextLen characters over TextAlphabet.
SpecScan == InitOver(ScanRows, {2}) /\ [][NextScan]_vars

\* Repeated calls: up to MaxCalls calls with one text before the caller
\* drops the result and passes another.
SpecRepeat == InitOver(ScanRows, {2}) /\ [][NextRepeat]_vars

\* ------------------------------------------------------------ properties

HasKey(key) == in_map(automaton, key)

Entry(key) == automaton[CHOOSE i \in DOMAIN automaton : automaton[i].key = key]

\* Lowercasing changes the length of neither the text nor a stored term.
LengthPreserved ==
    /\ Len(lower(text)) = Len(text)
    /\ \A i \in DOMAIN automaton :
           Len(automaton[i].key) = Len(automaton[i].original_cased_term)

\* C1: the spans behind the returned mentions, one per mention, are in
\* increasing order and disjoint: each starts strictly after the inclusive
\* end of the one before it.
C1_NonOverlapping ==
    pc = "returned" =>
        /\ Len(results) = Len(longest_matches)
        /\ \A k \in 1..(Len(longest_matches) - 1) :
               longest_matches[k + 1].start > longest_matches[k].end

\* A call returned a mention while two whole-word matches with different
\* starts overlapped.
C1_Witness ==
    /\ pc = "returned"
    /\ Len(results) >= 1
    /\ \E i, j \in DOMAIN whole_word_matches :
           /\ whole_word_matches[i].start < whole_word_matches[j].start
           /\ whole_word_matches[j].start <= whole_word_matches[i].end

\* C2: every returned mention is the text between its span's offsets, and
\* the characters next to the span, where the text has them, are not
\* alphanumeric; when lowercasing keeps the lengths, that text is a case
\* variant of a term indexed for the mention's concept.
C2_WholeWord ==
    (pc = "returned" /\ raised = "none") =>
        \A k \in DOMAIN results :
            LET m == longest_matches[k]
            IN  /\ 0 <= m.start /\ m.start <= m.end /\ m.end < Len(text)
                /\ results[k].MentionedTerm = SubSeq(text, m.start + 1, m.end + 1)
                /\ m.start = 0 \/ ~isalnum(text[m.start])
                /\ m.end + 1 = Len(text) \/ ~isalnum(text[m.end + 2])
                /\ LengthPreserved =>
                       /\ HasKey(lower(results[k].MentionedTerm))
                       /\ Entry(lower(results[k].MentionedTerm)).concept_id = m.concept_id

\* A call returned a mention that begins the text while the automaton also
\* reported a term inside a word, which was dropped.
C2_Witness ==
    /\ pc = "returned"
    /\ raised = "none"
    /\ Len(lower(text)) = Len(text)
    /\ \E k \in DOMAIN longest_matches : longest_matches[k].start = 0
    /\ LET all == all_matches(automaton, text)
       IN  \E k \in DOMAIN all :
               /\ all[k].end + 1 < Len(text)
               /\ isalnum(text[all[k].end + 2])

AmyloidBeta == <<"a", "-", "s", "a">>

Beta == <<"s", "a">>

\* C3: no whole-word match that starts where an accepted span starts is
\* longer than it, and no accepted span lies inside another.  With "a-sa"
\* and "sa" indexed (the shape of "amyloid beta" and "beta"), the text
\* "a-Sa" gives exactly one mention, the whole text.
C3_LongestFirst ==
    (pc = "returned" /\ raised = "none") =>
        /\ \A k \in DOMAIN longest_matches : \A j \in DOMAIN whole_word_matches :
               whole_word_matches[j].start = longest_matches[k].start
                   => whole_word_matches[j].end <= longest_matches[k].end
        /\ \A k, j \in DOMAIN longest_matches :
               (k # j /\ longest_matches[k].start <= longest_matches[j].start)
                   => longest_matches[j].end > longest_matches[k].end
        /\ (HasKey(AmyloidBeta) /\ HasKey(Beta) /\ text = <<"a", "-", "S", "a">>)
               => /\ Len(results) = 1
                  /\ results[1].MentionedTerm = text
                  /\ results[1].ID = Entry(AmyloidBeta).concept_id

\* A call accepted a span although a shorter whole-word match starts at the
\* same offset.
C3_Witness ==
    /\ pc = "returned"
    /\ raised = "none"
    /\ \E k \in DOMAIN longest_matches : \E j \in DOMAIN whole_word_matches :
           /\ whole_word_matches[j].start = longest_matches[k].start
           /\ whole_word_matches[j].end < longest_matches[k].end

\* The text between offsets s and e is a case variant of the term of entry T
\* and stands as a whole word.
Occurs(T, s, e) ==
    /\ lower(SubSeq(text, s + 1, e + 1)) = T.key
    /\ s = 0 \/ ~isalnum(text[s])
    /\ e + 1 = Len(text) \/ ~isalnum(text[e + 2])

\* A returned mention stands for the occurrence of T at s..e: the text's own
\* casing and T's concept.
Reported(T, s, e) ==
    \E k \in DOMAIN results :
        /\ longest_matches[k].start = s
        /\ longest_matches[k].end = e
        /\ results[k].MentionedTerm = SubSeq(text, s + 1, e + 1)
        /\ results[k].ID = T.concept_id

\* An accepted span that starts earlier, or at s and is longer, covers s.
Suppressed(s, e) ==
    \E k \in DOMAIN longest_matches :
        LET a == longest_matches[k]
        IN  /\ a.end >= s
            /\ a.start < s \/ (a.start = s /\ a.end > e)

\* C4 as stated, on texts and terms whose lowercase keeps its length: every
\* whole-word occurrence of a case variant of an indexed term is returned as
\* a mention with the text's casing and the term's concept.
C4_EveryOccurrenceReported ==
    (pc = "returned" /\ LengthPreserved) =>
        \A i \in DOMAIN automaton : \A s, e \in 0..(Len(text) - 1) :
            (s <= e /\ Occurs(automaton[i], s, e)) => Reported(automaton[i], s, e)

\* C4, amended: when lowercasing changes the length of neither the text nor
\* an indexed term, every whole-word occurrence of a case variant of an
\* indexed term is either returned as a mention (the text's casing, the
\* term's concept) or overlapped by a returned span that starts earlier or
\* starts at the same offset and is longer.
C4_OccurrenceReportedOrSuppressed ==
    (pc = "returned" /\ LengthPreserved) =>
        /\ raised = "none"
        /\ \A i \in DOMAIN automaton : \A s, e \in 0..(Len(text) - 1) :
               (s <= e /\ Occurs(automaton[i], s, e))
                   => Reported(automaton[i], s, e) \/ Suppressed(s, e)

\* A call returned a mention whose casing is the text's and not the stored
\* surface form's, next to an occurrence that a longer span suppressed.
C4_Witness ==
    /\ pc = "returned"
    /\ LengthPreserved
    /\ \E k \in DOMAIN results :
           results[k].MentionedTerm #
               Entry(lower(results[k].MentionedTerm)).original_cased_term
    /\ \E i \in DOMAIN automaton : \E s, e \in 0..(Len(text) - 1) :
           /\ s <= e
           /\ Occurs(automaton[i], s, e)
           /\ ~Reported(automaton[i], s, e)

\* The rows of the dataset that have both an id and a name, in order.
RECURSIVE RowsWithIdAndName(_)
RowsWithIdAndName(rows) ==
    IF rows = <<>> THEN <<>>
    ELSE (IF Head(rows).ID # NoID /\ Head(rows).BiomarkerName # NaN
          THEN <<Head(rows)>> ELSE <<>>)
         \o RowsWithIdAndName(Tail(rows))

\* The candidate terms in build order: row by row, the name and then the
\* comma-separated synonyms from left to right, each trimmed.
RECURSIVE CandidatesOf(_)
CandidatesOf(rows) ==
    IF rows = <<>> THEN <<>>
    ELSE LET terms == terms_to_process(Head(rows))
         IN  [k \in DOMAIN terms |->
                 [concept_id |-> Head(rows).ID, term |-> strip(terms[k])]]
             \o CandidatesOf(Tail(rows))

Candidates == CandidatesOf(RowsWithIdAndName(biomarker_dataframe))

\* C5: a trimmed candidate is in the term table exactly when it has at least
\* min_len characters and its lowercase form is no stop word; no returned
\* mention is a stop word or shorter than min_len.
C5_TermValidity ==
    pc # "new" =>
        /\ LET cands == Candidates
           IN  \A c \in DOMAIN cands :
                   HasKey(lower(cands[c].term))
                       <=> /\ Len(cands[c].term) >= min_len
                           /\ lower(cands[c].term) \notin StopWords
        /\ \A k \in DOMAIN results :
               /\ lower(results[k].MentionedTerm) \notin StopWords
               /\ Len(results[k].MentionedTerm) >= min_len

\* The first row of the dataset with this id among those with id and name.
FirstRow(id) ==
    LET rows == RowsWithIdAndName(biomarker_dataframe)
    IN  rows[CHOOSE i \in DOMAIN rows :
                 /\ rows[i].ID = id
                 /\ \A j \in DOMAIN rows : rows[j].ID = id => i <= j]

\* C6: the concept database holds, for each id of a row with id and name,
\* the first such row; the valid candidates of every such row, later rows of
\* an id included, are keys of the term table; each returned mention's ID is
\* a key of the database and its Linked Biomarker the first row's name.
C6_FirstRowWins ==
    pc # "new" =>
        LET rows == RowsWithIdAndName(biomarker_dataframe)
        IN  /\ DOMAIN biomarker_db = { rows[i].ID : i \in DOMAIN rows }
            /\ \A id \in DOMAIN biomarker_db : biomarker_db[id] = FirstRow(id)
            /\ LET cands == Candidates
               IN  \A c \in DOMAIN cands :
                       _is_valid_term(cands[c].term, StopWords)
                           => HasKey(lower(cands[c].term))
            /\ \A k \in DOMAIN results :
                   /\ results[k].ID \in DOMAIN biomarker_db
                   /\ results[k].LinkedBiomarker = FirstRow(results[k].ID).BiomarkerName

\* A call returned a mention of a term that only a later row of its id
\* supplies, and that row's name differs from the first row's.
C6_Witness ==
    /\ pc = "returned"
    /\ \E k \in DOMAIN results :
           LET key == lower(results[k].MentionedTerm)
               first == FirstRow(results[k].ID)
           IN  /\ \A t \in DOMAIN terms_to_process(first) :
                      lower(strip(terms_to_process(first)[t])) # key
               /\ \E r \in DOMAIN biomarker_dataframe :
                      /\ biomarker_dataframe[r].ID = results[k].ID
                      /\ biomarker_dataframe[r].BiomarkerName # NaN
                      /\ biomarker_dataframe[r].BiomarkerName # first.BiomarkerName

\* No candidate of a row with id and name passes the finder's filter.
NoValidTerm ==
    LET cands == Candidates
    IN  \A c \in DOMAIN cands : ~_is_valid_term(cands[c].term, StopWords)

\* C7: when the dataset yields no term that passes the finder's filter, the
\* built term table is empty and every call returns the empty list without
\* raising.
C7_EmptyDictionary ==
    (pc # "new" /\ NoValidTerm) =>
        /\ automaton = <<>>
        /\ results = <<>>
        /\ raised = "none"

\* A call returned on a finder built from rows whose candidates were all
\* rejected, for a text that holds one of them as a word.
C7_Witness ==
    /\ pc = "returned"
    /\ NoValidTerm
    /\ biomarker_df # <<>>
    /\ LET cands == Candidates
       IN  \E c \in DOMAIN cands : lower(cands[c].term) = lower(text)

\* C8: a call either raises or returns only mentions that are case variants
\* of a term bound to the concept they name.
C8_NoSilentMisreport ==
    pc = "returned" =>
        \/ raised # "none"
        \/ \A k \in DOMAIN results :
               /\ HasKey(lower(results[k].MentionedTerm))
               /\ Entry(lower(results[k].MentionedTerm)).concept_id = results[k].ID

\* C9: no step after the build changes the term table, the concept database
\* or the stop-word set, and a call repeated with the same text returns
\* what the call before it returned.
C9_ReadOnlyScan ==
    [][pc # "new" =>
          /\ automaton' = automaton
          /\ biomarker_db' = biomarker_db
          /\ stop_words' = stop_words
          /\ (pc = "returned" /\ pc' = "returned")
                 => (text' = text /\ results' = results /\ raised' = raised)]_vars

\* A second call with the same text returned mentions.
C9_Witness ==
    /\ pc = "returned"
    /\ calls >= 2
    /\ Len(results) >= 1

\* The first candidate of cands, in order, that passes the filter and has
\* this lowercase form.
FirstWriter(cands, key) ==
    LET writers == { i \in DOMAIN cands :
                       /\ _is_valid_term(cands[i].term, StopWords)
                       /\ lower(cands[i].term) = key }
    IN  cands[CHOOSE i \in writers : \A j \in writers : i <= j]

\* C10: the keys of the term table are distinct, and each key is bound to
\* the concept id and trimmed surface form of the first candidate in build
\* order that passes the filter and has that lowercase form.
C10_FirstWriterWins ==
    pc # "new" =>
        LET cands == Candidates
        IN  /\ \A i, j \in DOMAIN automaton :
                   automaton[i].key = automaton[j].key => i = j
            /\ \A i \in DOMAIN automaton :
                   /\ \E c \in DOMAIN cands :
                          /\ _is_valid_term(cands[c].term, StopWords)
                          /\ lower(cands[c].term) = automaton[i].key
                   /\ LET first == FirstWriter(cands, automaton[i].key)
                      IN  /\ automaton[i].concept_id = first.concept_id
                          /\ automaton[i].original_cased_term = first.term

\* The build met two candidates with one lowercase form, from different
\* concepts and in different casing, and kept a binding for it.
C10_Witness ==
    /\ pc # "new"
    /\ LET cands == Candidates
       IN  \E i, j \in DOMAIN cands :
               /\ i < j
               /\ HasKey(lower(cands[i].term))
               /\ lower(cands[i].term) = lower(cands[j].term)
               /\ cands[i].term # cands[j].term
               /\ cands[i].concept_id # cands[j].concept_id

====
